---------------------------- MODULE Spec2Model ----------------------------
(***************************************************************************)
(* Model of backend/main.py, the read-only aggregation service: the        *)
(* /api/logs handler (get_logs over _load_logs) and the /api/images        *)
(* handler (get_images over _load_images), together with the external      *)
(* processes that write logs.json and the image directory.                 *)
(*                                                                         *)
(* Strings are compared as Python compares str values: by code point, a    *)
(* proper prefix being smaller.                                            *)
(* The handlers are "async def" bodies without an await, so the event loop *)
(* runs one request at a time: one program counter serves both handlers.   *)
(* The file system is shared with external writers, which may act between  *)
(* any two file-system calls of a request.                                 *)
(***************************************************************************)
EXTENDS Integers, Sequences, FiniteSets, TLC

(* ------------------------------ bounds --------------------------------- *)

\* Largest number of elements of the JSON array in logs.json.
MaxEvents == 3

\* Largest number of entries of the image directory.
MaxFiles == 2

(* ------------------------------ strings -------------------------------- *)

\* The characters in use, in code-point order.
Alphabet == "+-.0123456789:GJNPTabcdefgijmnoptx"

\* ord(c), up to the order of the code points.
Ord(c) == CHOOSE i \in 1..Len(Alphabet) : SubSeq(Alphabet, i, i) = c

\* str.__lt__: the first differing code point decides; a proper prefix is smaller.
RECURSIVE StrLess(_, _)
StrLess(a, b) ==
    IF b = "" THEN FALSE
    ELSE IF a = "" THEN TRUE
    ELSE IF Head(a) = Head(b) THEN StrLess(Tail(a), Tail(b))
    ELSE Ord(Head(a)) < Ord(Head(b))

\* str.lower() on one character.
LowerChar(c) ==
    CASE c = "G" -> "g"
      [] c = "J" -> "j"
      [] c = "N" -> "n"
      [] c = "P" -> "p"
      [] c = "T" -> "t"
      [] OTHER -> c

RECURSIVE Lower(_)
Lower(s) == IF s = "" THEN "" ELSE LowerChar(Head(s)) \o Lower(Tail(s))

Reverse(s) == [i \in 1..Len(s) |-> s[Len(s) + 1 - i]]

(* ------------------------- sorted / list.sort -------------------------- *)

\* A sort key: a str (v its characters) or a number (t is "num"; one
\* numeric value is modelled, so two numeric keys are equal).
StrKey(v) == [t |-> "str", v |-> v]

\* a < b for two keys of the same type.
KeyLess(a, b) == a.t = "str" /\ b.t = "str" /\ StrLess(a.v, b.v)

\* Comparing a str with a number raises TypeError.
Comparable(a, b) == a.t = b.t

\* Stable ascending insertion of the decorated element x (a record with its
\* sort key in the field key) into the ascending list s: x goes behind every
\* element that does not compare greater than it.
InsertAsc(x, s) ==
    LET k == Cardinality({i \in 1..Len(s) : ~KeyLess(x.key, s[i].key)})
    IN  SubSeq(s, 1, k) \o <<x>> \o SubSeq(s, k + 1, Len(s))

RECURSIVE SortAsc(_)
SortAsc(s) ==
    IF s = <<>> THEN <<>>
    ELSE InsertAsc(s[Len(s)], SortAsc(SubSeq(s, 1, Len(s) - 1)))

\* A variant of SortedReverse that sorts ascending and reverses the result,
\* which also reverses the elements whose keys are equal.
SortedReverseUnstable(s) == Reverse(SortAsc(s))

\* A variant of SortedReverse that ignores reverse=True.
SortedAscending(s) == SortAsc(s)

\* sorted(..., key=..., reverse=True) and list.sort(key=..., reverse=True) on
\* the list s of elements decorated with their keys: the list is reversed,
\* sorted stably in ascending order and reversed again, so that elements
\* with equal keys keep their original order.
SortedReverse(s) == Reverse(SortAsc(Reverse(s)))

\* The sort raises TypeError when it compares a str with a number, which a
\* list of two or more elements with keys of both types makes it do.
SortRaises(s) == \E i, j \in 1..Len(s) : ~Comparable(s[i].key, s[j].key)

Decorate(s, keys) == [i \in 1..Len(s) |-> [key |-> keys[i], item |-> s[i]]]

Undecorate(s) == [i \in 1..Len(s) |-> s[i].item]

(* ---------------------------- logs.json -------------------------------- *)

\* The file at LOG_PATH: absent, or one of
\*   undecodable  bytes that are not valid UTF-8,
\*   notjson      text that json.loads rejects (such as not-json),
\*   object       JSON whose top level is not an array,
\*   array        a JSON array, elems its elements.
File(kind, elems) == [kind |-> kind, elems |-> elems]

NoFile == File("absent", <<>>)

\* The value under "timestamp" of an element: missing, a string, a number.
NoTimestamp == [t |-> "missing", v |-> ""]

SampleTimestamps == { "", "1", "12", "2" }

TimestampValues ==
    {NoTimestamp} \cup {[t |-> "str", v |-> v] : v \in SampleTimestamps}
                  \cup {[t |-> "num", v |-> ""]}

\* An element of the array: a JSON object (isRecord) with its timestamp, or
\* a value of another type. The other fields of an element are summed up
\* in id, its position in the document, which tells equal-looking elements
\* apart.
Shapes ==
    {[isRecord |-> TRUE, ts |-> t] : t \in TimestampValues}
        \cup {[isRecord |-> FALSE, ts |-> NoTimestamp]}

Element(shape, i) == [isRecord |-> shape.isRecord, ts |-> shape.ts, id |-> i]

ArrayFiles ==
    UNION { { File("array", [i \in 1..n |-> Element(f[i], i)]) : f \in [1..n -> Shapes] }
            : n \in 0..MaxEvents }

BrokenFiles == { File("undecodable", <<>>), File("notjson", <<>>), File("object", <<>>) }

LogFiles == {NoFile} \cup BrokenFiles \cup ArrayFiles

(* ----------------------------- responses ------------------------------- *)

Response(endpoint, status, detail, body) ==
    [endpoint |-> endpoint, status |-> status, detail |-> detail,
     body |-> body, total |-> Len(body)]

NoResponse == Response("none", 0, "", <<>>)

\* An exception that is no HTTPException: the server answers 500 with the
\* fixed text Internal Server Error.
Unhandled(endpoint) == Response(endpoint, 500, "Internal Server Error", <<>>)

(* ----------------------------- /api/logs ------------------------------- *)

\* e.get("timestamp", "")
EventKey(e) == IF e.ts.t = "missing" THEN StrKey("") ELSE [t |-> e.ts.t, v |-> e.ts.v]

EventKeys(events) == [i \in 1..Len(events) |-> EventKey(events[i])]

\* A variant of SortLogs that returns the events in document order.
SortLogsNot(events) == events

\* A variant of SortLogs that loses the last event.
SortLogsDrop(events) ==
    LET r == Undecorate(SortedReverse(Decorate(events, EventKeys(events))))
    IN  SubSeq(r, 1, Len(r) - 1)

\* sorted(events, key=lambda e: e.get("timestamp", ""), reverse=True)
SortLogs(events) == Undecorate(SortedReverse(Decorate(events, EventKeys(events))))

\* A variant of LogsAbsent that reports the missing document as an error.
LogsAbsentError == Response("logs", 500, "Internal Server Error", <<>>)

\* _load_logs returns [] for a missing document; get_logs sorts and counts it.
LogsAbsent == Response("logs", 200, "", SortLogs(<<>>))

\* The rest of get_logs once LOG_PATH.exists() has answered True, on the
\* file that read_text finds:
\*   the file is gone            FileNotFoundError, unhandled;
\*   its bytes are not UTF-8     UnicodeDecodeError, unhandled (the except
\*                               clause names json.JSONDecodeError only);
\*   json.loads rejects it       HTTPException 500, Corrupt logs.json: ...;
\*   the value is no list        HTTPException 500, logs.json should ...;
\*   an element is no dict       AttributeError from e.get, unhandled;
\*   str and number timestamps   TypeError from the sort, unhandled;
\*   otherwise                   200 with the sorted events.
LogsRead(file) ==
    IF file.kind = "absent" \/ file.kind = "undecodable" THEN Unhandled("logs")
    ELSE IF file.kind = "notjson"
    THEN Response("logs", 500, "Corrupt logs.json", <<>>)
    ELSE IF file.kind = "object"
    THEN Response("logs", 500, "logs.json should contain a JSON array", <<>>)
    ELSE IF (\E i \in 1..Len(file.elems) : ~file.elems[i].isRecord)
            \/ SortRaises(Decorate(file.elems, EventKeys(file.elems)))
    THEN Unhandled("logs")
    ELSE Response("logs", 200, "", SortLogs(file.elems))

(* -------------------------- image directory ---------------------------- *)

\* IMAGES_DIR: whether it exists, and its direct entries, a function from
\* the names to [kind, mtime]; kind is file or dir (a subdirectory).
Directory(exists, entries) == [exists |-> exists, entries |-> entries]

NoDirectory == Directory(FALSE, <<>>)

Names == { "a.png", "b.JPG", "c.jpeg", "d.gif", "e.bmp", "note.txt", ".png" }

\* st_mtime as the file system keeps it, seconds and nanoseconds since the
\* epoch: 2024-01-01T00:00:00Z, 400 ns and half a second later, and the
\* next second.
MTimes ==
    { [sec |-> 1704067200, nsec |-> 0],
      [sec |-> 1704067200, nsec |-> 400],
      [sec |-> 1704067200, nsec |-> 500000000],
      [sec |-> 1704067201, nsec |-> 0] }

\* A regular file with any of the sample times, or a subdirectory (one
\* sample time serves: a subdirectory's record is formatted like a file's).
Attributes ==
    {[kind |-> "file", mtime |-> m] : m \in MTimes}
        \cup {[kind |-> "dir", mtime |-> [sec |-> 1704067200, nsec |-> 500000000]]}

Directories ==
    {NoDirectory} \cup
    UNION { { Directory(TRUE, f) : f \in [S -> Attributes] }
            : S \in {T \in SUBSET Names : Cardinality(T) <= MaxFiles} }

\* Every order in which iterdir may yield the names of S.
Enumerations(S) ==
    { o \in [1..Cardinality(S) -> S] : \A i, j \in 1..Cardinality(S) : o[i] = o[j] => i = j }

(* ---------------------------- /api/images ------------------------------ *)

\* str.rfind("."), counted from 1; 0 when there is no dot.
LastDot(name) ==
    IF \E i \in 1..Len(name) : SubSeq(name, i, i) = "."
    THEN CHOOSE i \in 1..Len(name) :
            /\ SubSeq(name, i, i) = "."
            /\ \A j \in (i + 1)..Len(name) : SubSeq(name, j, j) # "."
    ELSE 0

\* PurePath.suffix: the name from its last dot on, unless that dot is the
\* first or the last character of the name.
Suffix(name) ==
    LET i == LastDot(name)
    IN  IF 1 < i /\ i < Len(name) THEN SubSeq(name, i, Len(name)) ELSE ""

AllowedSuffixes == { ".png", ".jpg", ".jpeg", ".gif", ".bmp" }

\* A variant of Qualifies that accepts every name with a suffix.
QualifiesAnySuffix(name) == Suffix(name) # ""

\* file.suffix.lower() in {".png", ".jpg", ".jpeg", ".gif", ".bmp"}
Qualifies(name) == Lower(Suffix(name)) \in AllowedSuffixes

\* datetime.fromtimestamp(stat.st_mtime, tz=timezone.utc): the time rounded
\* to microseconds, half to even. (st_mtime is a float; the sample times
\* are ones its precision does not move to another microsecond.)
FromTimestamp(m) ==
    LET q  == m.nsec \div 1000
        r  == m.nsec % 1000
        us == IF r > 500 \/ (r = 500 /\ q % 2 = 1) THEN q + 1 ELSE q
    IN  IF us >= 1000000 THEN [sec |-> m.sec + 1, us |-> us - 1000000]
        ELSE [sec |-> m.sec, us |-> us]

Digits == "0123456789"

\* "%0*d": n in w decimal digits.
RECURSIVE Pad(_, _)
Pad(n, w) ==
    IF w = 0 THEN ""
    ELSE Pad(n \div 10, w - 1) \o SubSeq(Digits, (n % 10) + 1, (n % 10) + 1)

\* The proleptic Gregorian date of the day `days` days after 1970-01-01.
CivilFromDays(days) ==
    LET z   == days + 719468
        era == z \div 146097
        doe == z - era * 146097
        yoe == (doe - doe \div 1460 + doe \div 36524 - doe \div 146096) \div 365
        doy == doe - (365 * yoe + yoe \div 4 - yoe \div 100)
        mp  == (5 * doy + 2) \div 153
        d   == doy - (153 * mp + 2) \div 5 + 1
        mo  == IF mp < 10 THEN mp + 3 ELSE mp - 9
        y   == yoe + era * 400 + (IF mo <= 2 THEN 1 ELSE 0)
    IN  [year |-> y, month |-> mo, day |-> d]

\* datetime.isoformat() of an aware UTC datetime:
\* YYYY-MM-DDTHH:MM:SS[.ffffff]+00:00, the fraction only when it is not 0.
IsoFormat(dt) ==
    LET date == CivilFromDays(dt.sec \div 86400)
        tod  == dt.sec % 86400
    IN  Pad(date.year, 4) \o "-" \o Pad(date.month, 2) \o "-" \o Pad(date.day, 2)
        \o "T" \o Pad(tod \div 3600, 2) \o ":" \o Pad((tod \div 60) % 60, 2)
        \o ":" \o Pad(tod % 60, 2)
        \o (IF dt.us # 0 THEN "." \o Pad(dt.us, 6) ELSE "")
        \o "+00:00"

\* The record appended for a qualifying entry.
ImageRecord(name, attr) ==
    [filename |-> name, url |-> "/static/images/" \o name,
     timestamp |-> IsoFormat(FromTimestamp(attr.mtime))]

ItemKeys(its) == [i \in 1..Len(its) |-> StrKey(its[i].timestamp)]

\* A variant of SortItems that leaves the records in enumeration order.
SortItemsNot(its) == its

\* A variant of SortItems that sorts oldest first.
SortItemsAscending(its) == Undecorate(SortedAscending(Decorate(its, ItemKeys(its))))

\* items.sort(key=lambda item: item["timestamp"], reverse=True)
SortItems(its) == Undecorate(SortedReverse(Decorate(its, ItemKeys(its))))

\* _load_images returns [] for a missing directory.
ImagesAbsent == Response("images", 200, "", <<>>)

(* ------------------------------- state --------------------------------- *)

VARIABLES
    logDoc,     \* the file at LOG_PATH
    imagesDir,  \* the directory at IMAGES_DIR
    pc,         \* where the request in progress stands: idle (none),
                \* logs_read, images_iterdir, images_loop
    listing,    \* _load_images: the names iterdir yielded, in its order
    idx,        \* _load_images: the position of the loop in listing
    items,      \* _load_images: the records collected so far
    resp,       \* the response of the latest request, while the backing
                \* state is as that request left it
    prev,       \* the response before it, when no external write happened
                \* from the start of its request on
    quiet       \* no external write since the latest request started

vars == << logDoc, imagesDir, pc, listing, idx, items, resp, prev, quiet >>

locals == << listing, idx, items >>

\* A behaviour starts with one of the two stores in any of its states and
\* the other one absent: the handlers share nothing, so the stores are
\* explored one at a time.
Init ==
    /\ \/ logDoc \in LogFiles /\ imagesDir = NoDirectory
       \/ logDoc = NoFile /\ imagesDir \in Directories
    /\ pc = "idle"
    /\ listing = <<>>
    /\ idx = 0
    /\ items = <<>>
    /\ resp = NoResponse
    /\ prev = NoResponse
    /\ quiet = TRUE

\* A request starts: the latest response becomes the previous one.
Start ==
    /\ pc = "idle"
    /\ prev' = IF quiet THEN resp ELSE NoResponse
    /\ quiet' = TRUE

(* GET /api/logs *)

\* get_logs up to LOG_PATH.exists(); a missing document ends the request.
GetLogs ==
    /\ Start
    /\ IF logDoc.kind = "absent"
       THEN pc' = "idle" /\ resp' = LogsAbsent
       ELSE pc' = "logs_read" /\ resp' = NoResponse
    /\ UNCHANGED << logDoc, imagesDir, locals >>

\* read_text, json.loads, the type check, the sort and the response.
GetLogsRead ==
    /\ pc = "logs_read"
    /\ pc' = "idle"
    /\ resp' = LogsRead(logDoc)
    /\ UNCHANGED << logDoc, imagesDir, locals, prev, quiet >>

(* GET /api/images *)

\* get_images up to IMAGES_DIR.exists(); a missing directory ends it.
GetImages ==
    /\ Start
    /\ IF ~imagesDir.exists
       THEN pc' = "idle" /\ resp' = ImagesAbsent
       ELSE pc' = "images_iterdir" /\ resp' = NoResponse
    /\ UNCHANGED << logDoc, imagesDir, locals >>

\* The request ends with the response r.
Finish(r) ==
    /\ pc' = "idle"
    /\ resp' = r
    /\ listing' = <<>>
    /\ idx' = 0
    /\ items' = <<>>

\* IMAGES_DIR.iterdir(): the names of the directory in an order of the file
\* system's choosing, or FileNotFoundError when the directory is gone.
ImagesIterdir ==
    /\ pc = "images_iterdir"
    /\ IF ~imagesDir.exists
       THEN Finish(Unhandled("images"))
       ELSE /\ \E o \in Enumerations(DOMAIN imagesDir.entries) : listing' = o
            /\ idx' = 1
            /\ items' = <<>>
            /\ pc' = "images_loop"
            /\ resp' = NoResponse
    /\ UNCHANGED << logDoc, imagesDir, prev, quiet >>

\* One turn of the loop: the suffix test, file.stat() and the append.
\* stat raises FileNotFoundError when the entry is gone.
ImagesEntry ==
    /\ pc = "images_loop"
    /\ idx <= Len(listing)
    /\ LET name == listing[idx]
       IN  IF ~Qualifies(name)
           THEN /\ idx' = idx + 1
                /\ UNCHANGED << pc, listing, items, resp >>
           ELSE IF ~imagesDir.exists \/ name \notin DOMAIN imagesDir.entries
           THEN Finish(Unhandled("images"))
           ELSE /\ items' = Append(items, ImageRecord(name, imagesDir.entries[name]))
                /\ idx' = idx + 1
                /\ UNCHANGED << pc, listing, resp >>
    /\ UNCHANGED << logDoc, imagesDir, prev, quiet >>

\* The loop is over: items.sort and the response.
ImagesReturn ==
    /\ pc = "images_loop"
    /\ idx > Len(listing)
    /\ Finish(Response("images", 200, "", SortItems(items)))
    /\ UNCHANGED << logDoc, imagesDir, prev, quiet >>

(* The external writers *)

\* An external write: the responses obtained before it no longer describe
\* the backing state.
Disturb ==
    /\ quiet' = FALSE
    /\ prev' = NoResponse
    /\ resp' = NoResponse
    /\ UNCHANGED << pc, locals >>

\* The ingestion process appends an event to the array.
AppendEvent ==
    /\ logDoc.kind = "array"
    /\ Len(logDoc.elems) < MaxEvents
    /\ \E shape \in Shapes :
          logDoc' = File("array", Append(logDoc.elems, Element(shape, Len(logDoc.elems) + 1)))
    /\ Disturb
    /\ UNCHANGED imagesDir

\* The document is overwritten with something that is no JSON array.
CorruptLog ==
    /\ logDoc.kind = "array"
    /\ logDoc' \in BrokenFiles
    /\ Disturb
    /\ UNCHANGED imagesDir

\* The document is removed.
RemoveLog ==
    /\ logDoc.kind # "absent"
    /\ logDoc' = NoFile
    /\ Disturb
    /\ UNCHANGED imagesDir

\* The capture pipeline deposits an entry. (An entry deposited while a scan
\* holds its listing is not modelled: the loop looks only at listed names.)
AddEntry ==
    /\ pc \in {"idle", "images_iterdir"}
    /\ imagesDir.exists
    /\ Cardinality(DOMAIN imagesDir.entries) < MaxFiles
    /\ \E name \in Names \ DOMAIN imagesDir.entries, attr \in Attributes :
          imagesDir' = Directory(TRUE,
              [n \in DOMAIN imagesDir.entries \cup {name} |->
                  IF n = name THEN attr ELSE imagesDir.entries[n]])
    /\ Disturb
    /\ UNCHANGED logDoc

\* An entry of the directory is removed.
RemoveEntry ==
    /\ imagesDir.exists
    /\ \E name \in DOMAIN imagesDir.entries :
          imagesDir' = Directory(TRUE,
              [n \in DOMAIN imagesDir.entries \ {name} |-> imagesDir.entries[n]])
    /\ Disturb
    /\ UNCHANGED logDoc

\* The directory is removed with all it holds.
RemoveDirectory ==
    /\ imagesDir.exists
    /\ imagesDir' = NoDirectory
    /\ Disturb
    /\ UNCHANGED logDoc

Next ==
    \/ GetLogs
    \/ GetLogsRead
    \/ GetImages
    \/ ImagesIterdir
    \/ ImagesEntry
    \/ ImagesReturn
    \/ AppendEvent
    \/ CorruptLog
    \/ RemoveLog
    \/ AddEntry
    \/ RemoveEntry
    \/ RemoveDirectory

Spec == Init /\ [][Next]_vars

(* ------------------------------ properties ----------------------------- *)

\* The latest response, of the given endpoint, came from a request during
\* and since which nothing was written: it was computed from the backing
\* state as it is now.
Settled(endpoint) == pc = "idle" /\ quiet /\ resp.endpoint = endpoint

\* Two responses of the given endpoint in a row, nothing written from the
\* start of the first request on.
Repeated(endpoint) == Settled(endpoint) /\ prev.endpoint = endpoint

\* The timestamp an event is compared by: its string, the empty string when
\* the field is missing.
TimestampText(e) == IF e.ts.t = "missing" THEN "" ELSE e.ts.v

\* The document is a JSON array of records whose timestamps, when present,
\* are strings.
ValidLog(file) ==
    /\ file.kind = "array"
    /\ \A i \in 1..Len(file.elems) :
          file.elems[i].isRecord /\ file.elems[i].ts.t \in {"missing", "str"}

\* C1: for a log document that is an array of records with string (or
\* missing) timestamps, /api/logs answers 200 and no event of the list has a
\* timestamp lexically smaller than its successor's, a missing timestamp
\* counting as the empty string, so that no event without a timestamp
\* precedes one with a non-empty timestamp.
C1_LogsDescending ==
    (Settled("logs") /\ ValidLog(logDoc)) =>
        /\ resp.status = 200
        /\ \A i \in 1..(Len(resp.body) - 1) :
              ~StrLess(TimestampText(resp.body[i]), TimestampText(resp.body[i + 1]))
        /\ \A i, j \in 1..Len(resp.body) :
              (resp.body[i].ts.t = "missing" /\ TimestampText(resp.body[j]) # "") => j < i

\* C1's case: three events, the first of the document without a timestamp,
\* two different non-empty timestamps, and an answer in another order than
\* the document's.
C1_Witness ==
    /\ Settled("logs") /\ ValidLog(logDoc)
    /\ Len(logDoc.elems) = 3
    /\ logDoc.elems[1].ts.t = "missing"
    /\ TimestampText(logDoc.elems[2]) = "12"
    /\ TimestampText(logDoc.elems[3]) = "2"
    /\ resp.status = 200
    /\ resp.body # logDoc.elems

\* The lower-cased name ends with a dot and the extension ext.
EndsWithExtension(name, ext) ==
    /\ Len(name) > Len(ext)
    /\ Lower(SubSeq(name, Len(name) - Len(ext), Len(name))) = "." \o ext

AllowedExtensions == { "png", "jpg", "jpeg", "gif", "bmp" }

\* C2: every record /api/images returns has a filename that ends, case
\* aside, with a dot and one of png, jpg, jpeg, gif, bmp; note.txt is never
\* returned.
C2_OnlyAllowedExtensions ==
    (resp.endpoint = "images") =>
        \A i \in 1..Len(resp.body) :
            /\ \E ext \in AllowedExtensions : EndsWithExtension(resp.body[i].filename, ext)
            /\ resp.body[i].filename # "note.txt"

\* C2's case: the directory holds note.txt and b.JPG, and the answer holds
\* b.JPG alone.
C2_Witness ==
    /\ Settled("images")
    /\ DOMAIN imagesDir.entries = { "note.txt", "b.JPG" }
    /\ resp.status = 200
    /\ Len(resp.body) = 1
    /\ resp.body[1].filename = "b.JPG"

\* A success with no records and total 0.
EmptySuccess(r) == r.status = 200 /\ r.body = <<>> /\ r.total = 0

\* C3: with the log document absent /api/logs answers 200 with no events and
\* total 0, and with the image directory absent /api/images answers 200 with
\* no images and total 0 (the latest response and the one before it).
C3_AbsenceIsEmptySuccess ==
    /\ (Settled("logs") /\ logDoc.kind = "absent") => EmptySuccess(resp)
    /\ (Settled("images") /\ ~imagesDir.exists) => EmptySuccess(resp)
    /\ (pc = "idle" /\ quiet /\ prev.endpoint = "logs" /\ logDoc.kind = "absent")
          => EmptySuccess(prev)
    /\ (pc = "idle" /\ quiet /\ prev.endpoint = "images" /\ ~imagesDir.exists)
          => EmptySuccess(prev)

\* C3's case: both stores absent, /api/logs answered and then /api/images.
C3_Witness ==
    /\ Settled("images") /\ prev.endpoint = "logs"
    /\ logDoc.kind = "absent" /\ ~imagesDir.exists
    /\ resp.status = 200 /\ prev.status = 200

\* C4: a log document that exists but is no JSON ends /api/logs in a 500
\* that carries the parse diagnostic, one that is JSON but no array in a 500
\* with the schema message, and neither returns events.
C4_CorruptAndSchemaErrors ==
    /\ (Settled("logs") /\ logDoc.kind \in {"undecodable", "notjson"}) =>
          resp.status = 500 /\ resp.detail = "Corrupt logs.json" /\ resp.body = <<>>
    /\ (Settled("logs") /\ logDoc.kind = "object") =>
          /\ resp.status = 500 /\ resp.body = <<>>
          /\ resp.detail = "logs.json should contain a JSON array"

\* C5, as stated: two calls of one endpoint in a row, nothing written in
\* between, return identical results.
C5_RepeatedCallsIdentical ==
    (Repeated("logs") \/ Repeated("images")) => prev = resp

Timestamps(body) == [i \in 1..Len(body) |-> body[i].timestamp]

Members(body) == {body[i] : i \in 1..Len(body)}

\* C5, amended: two calls of /api/logs in a row with nothing written in
\* between return identical results; two such calls of /api/images return
\* the same status, the same records and the same sequence of timestamps,
\* and identical results when no two records share a timestamp.
C5_RepeatedCallsAgree ==
    /\ Repeated("logs") => prev = resp
    /\ Repeated("images") =>
          /\ prev.status = resp.status
          /\ prev.total = resp.total
          /\ Members(prev.body) = Members(resp.body)
          /\ Timestamps(prev.body) = Timestamps(resp.body)
          /\ (\A i, j \in 1..Len(resp.body) :
                 resp.body[i].timestamp = resp.body[j].timestamp => i = j)
             => prev = resp

\* C5's case: /api/images answered twice with the same two records, whose
\* timestamps differ.
C5_Witness ==
    /\ Repeated("images")
    /\ Len(resp.body) = 2 /\ Len(prev.body) = 2
    /\ resp.body[1].timestamp # resp.body[2].timestamp
    /\ prev = resp

\* The modification time a is later than b.
Later(a, b) == a.sec > b.sec \/ (a.sec = b.sec /\ a.nsec > b.nsec)

\* The modification time of the entry a returned record names.
MTimeOf(record) == imagesDir.entries[record.filename].mtime

LaterRounded(a, b) == a.sec > b.sec \/ (a.sec = b.sec /\ a.us > b.us)

C7_ImagesNeverFails ==
    (resp.endpoint = "images") => resp.status = 200

\* C8: no returned record names a subdirectory.
C8_NoSubdirectories ==
    (Settled("images") /\ resp.status = 200) =>
        \A i \in 1..Len(resp.body) : imagesDir.entries[resp.body[i].filename].kind = "file"

\* C9: in the answer of /api/logs two events with equal timestamps (a
\* missing one counting as empty) stand in the order of the document.
C9_StableSort ==
    (resp.endpoint = "logs" /\ resp.status = 200) =>
        \A i, j \in 1..Len(resp.body) :
            (i < j /\ TimestampText(resp.body[i]) = TimestampText(resp.body[j]))
                => resp.body[i].id < resp.body[j].id

\* C9's case: three events, the first and the last of the document with
\* equal timestamps and the middle one with a larger one.
C9_Witness ==
    /\ Settled("logs") /\ resp.status = 200
    /\ Len(logDoc.elems) = 3
    /\ logDoc.elems[1].ts = logDoc.elems[3].ts
    /\ logDoc.elems[1].ts.t = "str"
    /\ StrLess(TimestampText(logDoc.elems[1]), TimestampText(logDoc.elems[2]))
    /\ resp.body[2].id = 1 /\ resp.body[3].id = 3

\* C10: a successful answer of /api/logs holds the elements of the array,
\* each once and unaltered, total is their number, and no step of the
\* request writes the document.
C10_PermutationAndFrame ==
    /\ [](  (Settled("logs") /\ resp.status = 200 /\ logDoc.kind = "array") =>
              /\ Len(resp.body) = Len(logDoc.elems)
              /\ resp.total = Len(logDoc.elems)
              /\ Members(resp.body) = Members(logDoc.elems)  )
    /\ [][ (GetLogs \/ GetLogsRead) => logDoc' = logDoc ]_vars

\* C10's case: three events answered in another order than the document's.
C10_Witness ==
    /\ Settled("logs") /\ resp.status = 200
    /\ Len(logDoc.elems) = 3
    /\ resp.total = 3
    /\ resp.body # logDoc.elems

=============================================================================
